---- MODULE Spec2Model ----
(***************************************************************************)
(* Model of the driver's-license viewer server (server.py): the process-   *)
(* wide TTL cache behind get_license_data, the request handlers that use   *)
(* it, and the record filter apply_filters / check_license_status.         *)
(*                                                                         *)
(* Python strings are modelled as sequences of one-character strings, so   *)
(* that lower(), upper(), substring search and strptime are computed.      *)
(* Python None is the record None; a present value x is Some(x).           *)
(***************************************************************************)
EXTENDS Integers, Sequences, FiniteSets, TLC

VARIABLES
    \* ---- process-wide state of server.py
    sheets_connector,   \* TRUE: a GoogleSheetsConnector object, FALSE: None
    GOOGLE_SHEET_ID,    \* CONFIG["GOOGLE_SHEET_ID"]
    cached_data,        \* None or Some(value stored)
    cache_timestamp,    \* None or Some(clock value)
    \* ---- environment
    now,                \* datetime.now(), in whole seconds
    ticks,              \* number of clock advances so far (bounded)
    \* ---- sequential handlers: the last get_license_data call and response
    last,
    resp,
    \* ---- concurrent handlers (one request per thread)
    pc, kind, loc,
    data_by, stamp_by,  \* which request wrote cached_data / cache_timestamp last
    \* ---- inputs and result of apply_filters
    data, filters, today, filtered_data, filtered_again, fpc,
    \* ---- the sheet adapter: rows read from the sheet, records produced
    raw_data, licenses,
    \* ---- the generator: its random choices and the clock, the row produced
    gen_input, gen_entry

vars == << sheets_connector, GOOGLE_SHEET_ID, cached_data, cache_timestamp,
           now, ticks, last, resp, pc, kind, loc, data_by, stamp_by,
           data, filters, today, filtered_data, filtered_again, fpc,
           raw_data, licenses, gen_input, gen_entry >>

cacheVars  == << sheets_connector, GOOGLE_SHEET_ID, cached_data, cache_timestamp >>
seqVars    == << last, resp >>
concVars   == << pc, kind, loc, data_by, stamp_by >>
filterVars == << data, filters, today, filtered_data, filtered_again, fpc >>
sheetVars  == << raw_data, licenses >>
genVars    == << gen_input, gen_entry >>

-----------------------------------------------------------------------------
(* Bounds of the model *)

MaxLen == 2          \* longest record sequence given to apply_filters
MaxTicks == 3        \* clock advances in one behaviour
NumRequests == 2     \* concurrent request threads

-----------------------------------------------------------------------------
(* Python values *)

None == [isNone |-> TRUE]
Some(x) == [isNone |-> FALSE, v |-> x]

Range(s) == { s[i] : i \in 1..Len(s) }

\* dict.get(key, default)
Get(item, key, default) == IF key \in DOMAIN item THEN item[key] ELSE default

UpperLetters == << "A","B","C","D","E","F","G","H","I","J","K","L","M",
                   "N","O","P","Q","R","S","T","U","V","W","X","Y","Z" >>
LowerLetters == << "a","b","c","d","e","f","g","h","i","j","k","l","m",
                   "n","o","p","q","r","s","t","u","v","w","x","y","z" >>

\* str.lower() and str.upper(), character by character
LowerChar(c) ==
    IF \E i \in 1..Len(UpperLetters) : UpperLetters[i] = c
    THEN LowerLetters[CHOOSE i \in 1..Len(UpperLetters) : UpperLetters[i] = c]
    ELSE c
UpperChar(c) ==
    IF \E i \in 1..Len(LowerLetters) : LowerLetters[i] = c
    THEN UpperLetters[CHOOSE i \in 1..Len(LowerLetters) : LowerLetters[i] = c]
    ELSE c
lower(s) == [i \in 1..Len(s) |-> LowerChar(s[i])]
upper(s) == [i \in 1..Len(s) |-> UpperChar(s[i])]

\* the Python operator `sub in s` on strings
In(sub, s) ==
    \E i \in 0..(Len(s) - Len(sub)) :
        \A j \in 1..Len(sub) : s[i + j] = sub[j]

-----------------------------------------------------------------------------
(* datetime.strptime(s, '%Y-%m-%d').date() and date subtraction *)

Digits == << "0","1","2","3","4","5","6","7","8","9" >>
IsDigit(c) == \E i \in 1..10 : Digits[i] = c
DigitVal(c) == (CHOOSE i \in 1..10 : Digits[i] = c) - 1

RECURSIVE NumVal(_)
NumVal(s) == IF s = << >> THEN 0
             ELSE 10 * NumVal(SubSeq(s, 1, Len(s) - 1)) + DigitVal(s[Len(s)])

AllDigits(s) == \A i \in 1..Len(s) : IsDigit(s[i])

IsLeap(y) == (y % 4 = 0) /\ ((y % 100 # 0) \/ (y % 400 = 0))
DaysInMonth(y, m) ==
    IF m = 2 THEN (IF IsLeap(y) THEN 29 ELSE 28)
    ELSE IF m \in {4, 6, 9, 11} THEN 30 ELSE 31

RECURSIVE DaysBeforeMonth(_, _)
DaysBeforeMonth(y, m) ==
    IF m = 1 THEN 0 ELSE DaysBeforeMonth(y, m - 1) + DaysInMonth(y, m - 1)

\* date.toordinal(): days since 0001-01-01, that day being 1
Ordinal(d) ==
    LET y1 == d.year - 1
    IN  y1 * 365 + (y1 \div 4) - (y1 \div 100) + (y1 \div 400)
        + DaysBeforeMonth(d.year, d.month) + d.day

\* (a - b).days for two dates
DaysBetween(a, b) == Ordinal(a) - Ordinal(b)

\* The positions of "-" in s
Dashes(s) == { i \in 1..Len(s) : s[i] = "-" }

\* strptime with '%Y-%m-%d': %Y is exactly four digits, %m and %d are one or
\* two digits with no leading-zero-only value, the whole string must match,
\* and the date must exist in the calendar. The result is None where Python
\* raises ValueError.
strptime(s) ==
    IF Cardinality(Dashes(s)) # 2 THEN None
    ELSE
      LET d1 == CHOOSE i \in Dashes(s) : \A j \in Dashes(s) : i <= j
          d2 == CHOOSE i \in Dashes(s) : \A j \in Dashes(s) : j <= i
          ys == SubSeq(s, 1, d1 - 1)
          ms == SubSeq(s, d1 + 1, d2 - 1)
          ds == SubSeq(s, d2 + 1, Len(s))
      IN  IF /\ Len(ys) = 4 /\ AllDigits(ys)
             /\ Len(ms) \in {1, 2} /\ AllDigits(ms)
             /\ Len(ds) \in {1, 2} /\ AllDigits(ds)
             /\ NumVal(ys) >= 1
             /\ NumVal(ms) \in 1..12
             /\ NumVal(ds) >= 1
             /\ NumVal(ds) <= DaysInMonth(NumVal(ys), NumVal(ms))
          THEN Some([year |-> NumVal(ys), month |-> NumVal(ms), day |-> NumVal(ds)])
          ELSE None

-----------------------------------------------------------------------------
(* check_license_status and apply_filters *)

S_valid    == << "v","a","l","i","d" >>
S_expiring == << "e","x","p","i","r","i","n","g" >>
S_expired  == << "e","x","p","i","r","e","d" >>

\* mutant: `0 <= days_until < 30` for the expiring status
check_license_status_Below30(license_data, status, td) ==
    LET exp_date_str == Get(license_data, "expiration", << >>)
    IN  IF exp_date_str = << >> THEN FALSE
        ELSE LET exp_date == strptime(exp_date_str)
             IN  IF exp_date = None THEN FALSE
                 ELSE LET days_until == DaysBetween(exp_date.v, td)
                      IN  IF status = S_valid THEN days_until > 30
                          ELSE IF status = S_expiring
                               THEN 0 <= days_until /\ days_until < 30
                          ELSE IF status = S_expired THEN days_until < 0
                          ELSE TRUE

\* mutant: the `except:` of line 292 returning True
check_license_status_ExceptTrue(license_data, status, td) ==
    LET exp_date_str == Get(license_data, "expiration", << >>)
    IN  IF exp_date_str = << >> THEN FALSE
        ELSE LET exp_date == strptime(exp_date_str)
             IN  IF exp_date = None THEN TRUE
                 ELSE LET days_until == DaysBetween(exp_date.v, td)
                      IN  IF status = S_valid THEN days_until > 30
                          ELSE IF status = S_expiring
                               THEN 0 <= days_until /\ days_until <= 30
                          ELSE IF status = S_expired THEN days_until < 0
                          ELSE TRUE

check_license_status(license_data, status, td) ==
    LET exp_date_str == Get(license_data, "expiration", << >>)
    IN  IF exp_date_str = << >> THEN FALSE
        ELSE LET exp_date == strptime(exp_date_str)
             IN  IF exp_date = None THEN FALSE
                 ELSE LET days_until == DaysBetween(exp_date.v, td)
                      IN  IF status = S_valid THEN days_until > 30
                          ELSE IF status = S_expiring
                               THEN 0 <= days_until /\ days_until <= 30
                          ELSE IF status = S_expired THEN days_until < 0
                          ELSE TRUE

SearchMatches(item, search_term) ==
    \/ In(search_term, lower(Get(item, "firstName", << >>)))
    \/ In(search_term, lower(Get(item, "lastName", << >>)))
    \/ In(search_term, lower(Get(item, "licenseNumber", << >>)))

\* mutant: the comparison without upper()
StateMatches_CaseSensitive(item, state_filter) ==
    Get(item, "state", << >>) = state_filter

StateMatches(item, state_filter) ==
    upper(Get(item, "state", << >>)) = upper(state_filter)

SearchFilter(fd, f) ==
    LET search_term == lower(Get(f, "search", << >>))
    IN  IF search_term # << >>
        THEN SelectSeq(fd, LAMBDA item : SearchMatches(item, search_term))
        ELSE fd

\* mutant: the state filter without its `if state_filter:` guard
StateFilter_NoGuard(fd, f) ==
    LET state_filter == Get(f, "state", << >>)
    IN  SelectSeq(fd, LAMBDA item : StateMatches(item, state_filter))

StateFilter(fd, f) ==
    LET state_filter == Get(f, "state", << >>)
    IN  IF state_filter # << >>
        THEN SelectSeq(fd, LAMBDA item : StateMatches(item, state_filter))
        ELSE fd

StatusFilter(fd, f, td) ==
    LET status_filter == Get(f, "status", << >>)
    IN  IF status_filter # << >>
        THEN SelectSeq(fd, LAMBDA item : check_license_status(item, status_filter, td))
        ELSE fd

\* mutant: the list comprehension result sliced [1:]
apply_filters_SkipFirst(d, f, td) ==
    IF DOMAIN f = {} THEN d
    ELSE LET r == StatusFilter(StateFilter(SearchFilter(d, f), f), f, td)
         IN  IF r = << >> THEN r ELSE Tail(r)

\* mutant: the state filter iterating over data instead of filtered_data
apply_filters_StateOverData(d, f, td) ==
    IF DOMAIN f = {} THEN d
    ELSE StatusFilter(IF Get(f, "state", << >>) # << >>
                      THEN StateFilter(d, f)
                      ELSE SearchFilter(d, f), f, td)

apply_filters(d, f, td) ==
    IF DOMAIN f = {} THEN d
    ELSE StatusFilter(StateFilter(SearchFilter(d, f), f), f, td)

-----------------------------------------------------------------------------
(* Inputs of the filter: records, query parameters, dates *)

Str_Ann == << "A","n","n" >>
Str_Cay == << "C","a","y" >>
Str_Dan == << "D","a","n" >>
Str_Nye == << "N","y","e" >>
Str_Cy  == << "C","y" >>

\* Records as the source adapter and the sample file produce them. p4 is a
\* one-column sheet row (every field defaulted), p5 a sample-file record
\* without state and expiration keys, p6 has a date that is not in the
\* calendar.
p1 == [id |-> 1, firstName |-> Str_Ann, lastName |-> Str_Cay,
       licenseNumber |-> << "C","1" >>, state |-> << "C","A" >>,
       expiration |-> << "2","0","2","4","-","0","3","-","0","1" >>,
       organDonor |-> FALSE]
p2 == [id |-> 2, firstName |-> Str_Dan, lastName |-> Str_Nye,
       licenseNumber |-> << "N","2" >>, state |-> << "c","a" >>,
       expiration |-> << "2","0","2","4","-","0","3","-","0","2" >>,
       organDonor |-> FALSE]
p3 == [id |-> 3, firstName |-> Str_Cy, lastName |-> Str_Ann,
       licenseNumber |-> << "A","3" >>, state |-> << "N","Y" >>,
       expiration |-> << "2","0","2","4","-","0","1","-","3","0" >>,
       organDonor |-> FALSE]
p4 == [id |-> 4, firstName |-> << >>, lastName |-> << >>,
       licenseNumber |-> << >>, state |-> << >>,
       expiration |-> << >>, organDonor |-> FALSE]
p5 == [id |-> 5, firstName |-> Str_Cay, organDonor |-> TRUE]
p6 == [id |-> 6, firstName |-> Str_Nye, lastName |-> Str_Dan,
       licenseNumber |-> << "c","9" >>, state |-> << "C","a" >>,
       expiration |-> << "2","0","2","4","-","0","2","-","3","0" >>,
       organDonor |-> FALSE]

RecordPool == { p1, p2, p3, p4, p5, p6 }

RecordSeqs == UNION { [1..n -> RecordPool] : n \in 0..MaxLen }

SearchValues == { << >>, << "a","n" >>, << "C" >> }
StateValues  == { << >>, << "c","a" >>, << "N","Y" >> }
StatusValues == { << >>, S_valid, S_expiring, S_expired, << "a","l","l" >> }
PageValues   == { << "1" >> }

\* request.args: any subset of the keys, "page" being a key the server
\* does not read
KeyValues(k) == CASE k = "search" -> SearchValues
                  [] k = "state"  -> StateValues
                  [] k = "status" -> StatusValues
                  [] k = "page"   -> PageValues
FilterKeys == { "search", "state", "status", "page" }
FilterParams ==
    UNION { { f \in [K -> UNION { KeyValues(k) : k \in K }] :
                \A k \in K : f[k] \in KeyValues(k) } : K \in SUBSET FilterKeys }

Todays == { [year |-> 2024, month |-> 1, day |-> 31],
            [year |-> 2024, month |-> 3, day |-> 1] }

-----------------------------------------------------------------------------
(* Idle values of the variables a specification does not use *)

IdleCache == /\ sheets_connector = FALSE
             /\ GOOGLE_SHEET_ID = "YOUR_SHEET_ID_HERE"
             /\ cached_data = None
             /\ cache_timestamp = None
IdleClock == now = 0 /\ ticks = 0
IdleSeq == last = None /\ resp = None
IdleConc == /\ pc = << >> /\ kind = << >> /\ loc = << >>
            /\ data_by = 0 /\ stamp_by = 0
IdleFilter == /\ data = << >> /\ filters = << >> /\ filtered_data = << >>
              /\ filtered_again = << >>
              /\ today = [year |-> 2024, month |-> 1, day |-> 31]
              /\ fpc = "idle"
IdleSheet == raw_data = << >> /\ licenses = None
IdleGen == gen_input = None /\ gen_entry = None

-----------------------------------------------------------------------------
(* The filter on its own: apply_filters applied to R, then to its result *)

InitFilter ==
    /\ IdleCache /\ IdleClock /\ IdleSeq /\ IdleConc /\ IdleSheet /\ IdleGen
    /\ data \in RecordSeqs
    /\ filters \in FilterParams
    /\ today \in Todays
    /\ filtered_data = << >>
    /\ filtered_again = << >>
    /\ fpc = "input"

\* filtered_data = apply_filters(data, request.args)
ApplyFilters ==
    /\ fpc = "input"
    /\ filtered_data' = apply_filters(data, filters, today)
    /\ fpc' = "done"
    /\ UNCHANGED << data, filters, today, filtered_again >>
    /\ UNCHANGED << cacheVars, now, ticks, seqVars, concVars, sheetVars, genVars >>

\* the same parameters applied to the result of the first call
ApplyFiltersAgain ==
    /\ fpc = "done"
    /\ filtered_again' = apply_filters(filtered_data, filters, today)
    /\ fpc' = "again"
    /\ UNCHANGED << data, filters, today, filtered_data >>
    /\ UNCHANGED << cacheVars, now, ticks, seqVars, concVars, sheetVars, genVars >>

NextFilter == ApplyFilters \/ ApplyFiltersAgain

SpecFilter == InitFilter /\ [][NextFilter]_vars

-----------------------------------------------------------------------------
(* The cache: get_license_data *)

CACHE_TIMEOUT == 300
PLACEHOLDER_SHEET_ID == "YOUR_SHEET_ID_HERE"

\* Python truth value of cached_data: None and the empty list are false
Truthy(opt) == opt # None /\ opt.v # << >>

\* mutant: the cache test without `not force_refresh`
UseCache_IgnoreForce(force_refresh, cd, ct) ==
    Truthy(cd) /\ ct # None

\* line 72: not force_refresh and cached_data and cache_timestamp
\* (a datetime object is always true)
UseCache(force_refresh, cd, ct) ==
    ~force_refresh /\ Truthy(cd) /\ ct # None

\* mutant: `elapsed <= CONFIG["CACHE_TIMEOUT"]`
Fresh_Inclusive(ct, t) == (t - ct.v) <= CACHE_TIMEOUT

\* lines 73-74: elapsed < CONFIG["CACHE_TIMEOUT"]
Fresh(ct, t) == (t - ct.v) < CACHE_TIMEOUT

\* line 79: sheets_connector and CONFIG["GOOGLE_SHEET_ID"] != "YOUR_SHEET_ID_HERE"
ConnectorUsable(conn, sid) == conn /\ sid # PLACEHOLDER_SHEET_ID

\* What sheets_connector.get_license_data can do: raise, or return rows
SourceOutcomes ==
    { [kind |-> "raise"],
      [kind |-> "rows", rows |-> << >>],
      [kind |-> "rows", rows |-> << p1, p2 >>],
      [kind |-> "rows", rows |-> << p3 >>] }

\* What open('sample_data.json') + json.load can do: fail, or give the list
FallbackOutcomes ==
    { [kind |-> "error"],
      [kind |-> "ok", rows |-> << >>],
      [kind |-> "ok", rows |-> << p5, p4 >>] }

\* mutant: the `except:` of line 95 lets the error reach the caller
TotalFailure_Raises(cd, ct) ==
    [cached_data |-> cd, cache_timestamp |-> ct, result |-> << >>,
     path |-> "empty", raised |-> TRUE]

\* lines 95-96: except: return []
TotalFailure(cd, ct) ==
    [cached_data |-> cd, cache_timestamp |-> ct, result |-> << >>,
     path |-> "empty", raised |-> FALSE]

\* lines 89-96: the fallback to the sample file
Fallback(cd, ct, t, fb) ==
    IF fb.kind = "ok"
    THEN [cached_data |-> Some(fb.rows), cache_timestamp |-> Some(t),
          result |-> fb.rows, path |-> "fallback", raised |-> FALSE]
    ELSE TotalFailure(cd, ct)

\* get_license_data run without interruption: the cache fields and the
\* returned value after the call, and the path taken. src_called and
\* fb_loaded say whether the source adapter was called (line 81) and the
\* fallback file opened (line 91).
get_license_data(force_refresh, cd, ct, conn, sid, t, src, fb) ==
    IF UseCache(force_refresh, cd, ct) /\ Fresh(ct, t)
    THEN [cached_data |-> cd, cache_timestamp |-> ct, result |-> cd.v,
          path |-> "cache", raised |-> FALSE,
          src_called |-> FALSE, fb_loaded |-> FALSE]
    ELSE IF ConnectorUsable(conn, sid) /\ src.kind = "rows" /\ src.rows # << >>
    THEN [cached_data |-> Some(src.rows), cache_timestamp |-> Some(t),
          result |-> src.rows, path |-> "source", raised |-> FALSE,
          src_called |-> TRUE, fb_loaded |-> FALSE]
    ELSE [x \in {"src_called", "fb_loaded"} |->
              IF x = "src_called" THEN ConnectorUsable(conn, sid) ELSE TRUE]
         @@ Fallback(cd, ct, t, fb)

\* mutant: refresh_data without its two assignments of None
Invalidated_Kept(v) == v

\* lines 167-168: cached_data = None, cache_timestamp = None
Invalidated(v) == None

-----------------------------------------------------------------------------
(* Sequential request handling: one handler runs to completion at a time *)

TickSteps == { 1, CACHE_TIMEOUT - 1 }

RequestArgs ==
    { f \in FilterParams :
        \/ DOMAIN f = {}
        \/ DOMAIN f = {"state"} /\ f["state"] = << "c","a" >>
        \/ DOMAIN f = {"status"} /\ f["status"] = S_expired }

\* the last call of get_license_data: its argument, the clock, the value
\* returned and the path taken
NoCall == [force_refresh |-> FALSE, time |-> 0, result |-> << >>,
           path |-> "none", raised |-> FALSE,
           src_called |-> FALSE, fb_loaded |-> FALSE]

CallRecord(force_refresh, t, r) ==
    [force_refresh |-> force_refresh, time |-> t, result |-> r.result,
     path |-> r.path, raised |-> r.raised,
     src_called |-> r.src_called, fb_loaded |-> r.fb_loaded]

Init ==
    /\ sheets_connector \in BOOLEAN
    /\ GOOGLE_SHEET_ID \in { PLACEHOLDER_SHEET_ID, "sheet-1" }
    /\ cached_data = None
    /\ cache_timestamp = None
    /\ IdleClock
    /\ last = NoCall
    /\ resp = None
    /\ IdleConc /\ IdleFilter /\ IdleSheet /\ IdleGen

\* the clock advances between requests
Tick ==
    /\ ticks < MaxTicks
    /\ \E dt \in TickSteps : now' = now + dt
    /\ ticks' = ticks + 1
    /\ UNCHANGED << cacheVars, seqVars, concVars, filterVars, sheetVars, genVars >>

\* the envelope every handler builds in its `except Exception` clause
Error500(handler) == [handler |-> handler, status |-> 500, success |-> FALSE]

\* GET /api/licenses
get_licenses ==
    \E src \in SourceOutcomes, fb \in FallbackOutcomes, args \in RequestArgs :
      LET r == get_license_data(FALSE, cached_data, cache_timestamp,
                                sheets_connector, GOOGLE_SHEET_ID, now, src, fb)
          fd == apply_filters(r.result, args, today)
      IN  /\ cached_data' = r.cached_data
          /\ cache_timestamp' = r.cache_timestamp
          /\ last' = CallRecord(FALSE, now, r)
          /\ resp' = IF r.raised THEN Error500("licenses")
                     ELSE [handler |-> "licenses", status |-> 200, success |-> TRUE,
                           count |-> Len(fd), total |-> Len(r.result),
                           timestamp |-> r.cache_timestamp,
                           source |-> IF sheets_connector THEN "google_sheets"
                                      ELSE "sample_data",
                           licenses |-> fd]
          /\ UNCHANGED << sheets_connector, GOOGLE_SHEET_ID, now, ticks,
                          concVars, filterVars, sheetVars, genVars >>

\* GET /api/refresh
refresh_data ==
    \E src \in SourceOutcomes, fb \in FallbackOutcomes :
      LET r == get_license_data(TRUE, Invalidated(cached_data),
                                Invalidated(cache_timestamp),
                                sheets_connector, GOOGLE_SHEET_ID, now, src, fb)
      IN  /\ cached_data' = r.cached_data
          /\ cache_timestamp' = r.cache_timestamp
          /\ last' = CallRecord(TRUE, now, r)
          /\ resp' = IF r.raised THEN Error500("refresh")
                     ELSE [handler |-> "refresh", status |-> 200, success |-> TRUE,
                           count |-> Len(r.result), timestamp |-> now]
          /\ UNCHANGED << sheets_connector, GOOGLE_SHEET_ID, now, ticks,
                          concVars, filterVars, sheetVars, genVars >>

Next == Tick \/ get_licenses \/ refresh_data

Spec == Init /\ [][Next]_vars

-----------------------------------------------------------------------------
(* Concurrent request handling: the server handles each request on its own *)
(* thread (app.run of Flask), with no lock around the cache. Each thread   *)
(* runs one handler, a line of get_license_data at a time.                 *)

Requests == 1..NumRequests

\* the handlers that call get_license_data: get_licenses and get_stats call
\* it as it is, refresh_data after clearing the cache and with force_refresh
Handlers == { "licenses", "stats", "refresh" }
HandlerRank(k) == CASE k = "licenses" -> 1 [] k = "stats" -> 2 [] k = "refresh" -> 3

\* an entry stored by an earlier request
OldEntry == << p6 >>

NewLocals(k) ==
    [force_refresh |-> (k = "refresh"),
     licenses |-> << >>,        \* the value this request fetched or loaded
     stamp |-> None,            \* the timestamp this request assigned
     path |-> "none",
     fetch_attempted |-> FALSE, \* adapter called or fallback file opened
     pre |-> None,              \* writer of the entry held at entry of refresh_data
     pre_call |-> None,         \* writer of the servable entry at entry of get_license_data(True)
     status |-> 0]

\* the sheet does not change while the requests run
ConcSourceOutcomes == { o \in SourceOutcomes : o.kind = "rows" => Len(o.rows) # 1 }

\* the writer of the entry the cache holds, None when it holds none
Held == IF cached_data = None THEN None ELSE Some(data_by)

\* the writer of the entry a get_license_data(False) could return from the
\* cache (line 72), None when there is no such entry
Servable == IF Truthy(cached_data) /\ cache_timestamp # None
            THEN Some(data_by) ELSE None

InitConc ==
    /\ \/ sheets_connector = TRUE /\ GOOGLE_SHEET_ID = "sheet-1"
       \/ sheets_connector = FALSE /\ GOOGLE_SHEET_ID = PLACEHOLDER_SHEET_ID
    /\ ticks = 0
    /\ \/ cached_data = None /\ cache_timestamp = None /\ now = 0
       \/ cached_data = Some(OldEntry) /\ cache_timestamp = Some(0)
          /\ now \in { 0, CACHE_TIMEOUT }
    /\ data_by = 0 /\ stamp_by = 0
    \* requests are interchangeable: they are numbered in the order
    \* licenses, stats, refresh of their handlers
    /\ kind \in { k \in [Requests -> Handlers] :
                     \A i, j \in Requests :
                         i < j => HandlerRank(k[i]) <= HandlerRank(k[j]) }
    /\ pc = [t \in Requests |-> IF kind[t] = "refresh" THEN "l167" ELSE "l72"]
    /\ loc = [t \in Requests |-> NewLocals(kind[t])]
    /\ IdleSeq /\ IdleFilter /\ IdleSheet /\ IdleGen

ConcFrame == UNCHANGED << sheets_connector, GOOGLE_SHEET_ID, ticks, kind,
                          seqVars, filterVars, sheetVars, genVars >>

\* datetime.now() where its value is stored: the clock has microsecond
\* resolution, so each stored reading is later than the one stored before
\* it. One unit passes between two of them.
ClockRead == now + 1

\* the rest of the handler after get_license_data returned `value` (lines
\* 118-127, 172-177): len(data) raises TypeError when it is None, which the
\* handler's `except Exception` turns into HTTP 500
Respond(l, value, path) ==
    [l EXCEPT !.path = path, !.status = IF value = None THEN 500 ELSE 200]

\* an exception inside get_license_data, caught by the handler: HTTP 500
Caught(l) == [l EXCEPT !.status = 500, !.path = "raised"]

\* refresh_data line 167: cached_data = None
L167(t) ==
    /\ pc[t] = "l167"
    /\ cached_data' = Invalidated(cached_data)
    /\ data_by' = IF cached_data' = cached_data THEN data_by ELSE t
    /\ loc' = [loc EXCEPT ![t].pre = Held]
    /\ pc' = [pc EXCEPT ![t] = "l168"]
    /\ UNCHANGED << cache_timestamp, stamp_by >>
    /\ UNCHANGED now
    /\ ConcFrame

\* refresh_data line 168: cache_timestamp = None
L168(t) ==
    /\ pc[t] = "l168"
    /\ cache_timestamp' = Invalidated(cache_timestamp)
    /\ stamp_by' = IF cache_timestamp' = cache_timestamp THEN stamp_by ELSE t
    /\ pc' = [pc EXCEPT ![t] = "l72"]
    /\ UNCHANGED << cached_data, data_by, loc >>
    /\ UNCHANGED now
    /\ ConcFrame

\* lines 78-87, reached when the cached entry is not used: the adapter call
\* when the connector is usable, and `if licenses`. It reads and writes
\* nothing shared, so it is taken together with the test that leads to it.
\* The request goes on to line 83 with its rows or to the fallback, line 90.
Fetch(t) ==
    \E src \in ConcSourceOutcomes :
        IF /\ ConnectorUsable(sheets_connector, GOOGLE_SHEET_ID)
           /\ src.kind = "rows" /\ src.rows # << >>
        THEN /\ loc' = [loc EXCEPT ![t].licenses = src.rows,
                                   ![t].fetch_attempted = TRUE,
                                   ![t].pre_call =
                                       IF loc[t].force_refresh THEN Servable ELSE @]
             /\ pc' = [pc EXCEPT ![t] = "l83"]
        ELSE /\ loc' = [loc EXCEPT ![t].fetch_attempted =
                                       ConnectorUsable(sheets_connector, GOOGLE_SHEET_ID),
                                   ![t].pre_call =
                                       IF loc[t].force_refresh THEN Servable ELSE @]
             /\ pc' = [pc EXCEPT ![t] = "l91"]

\* get_license_data line 72
L72(t) ==
    /\ pc[t] = "l72"
    /\ IF UseCache(loc[t].force_refresh, cached_data, cache_timestamp)
       THEN /\ pc' = [pc EXCEPT ![t] = "l73"]
            /\ UNCHANGED loc
       ELSE Fetch(t)
    /\ UNCHANGED << cached_data, cache_timestamp, data_by, stamp_by >>
    /\ UNCHANGED now
    /\ ConcFrame

\* lines 73-74: datetime.now() - cache_timestamp raises TypeError when a
\* refresh has set cache_timestamp to None since line 72
L73(t) ==
    /\ pc[t] = "l73"
    /\ IF cache_timestamp = None
       THEN /\ loc' = [loc EXCEPT ![t] = Caught(@)]
            /\ pc' = [pc EXCEPT ![t] = "done"]
       ELSE IF Fresh(cache_timestamp, now)
       THEN /\ pc' = [pc EXCEPT ![t] = "l75"]
            /\ UNCHANGED loc
       ELSE Fetch(t)
    /\ UNCHANGED << cached_data, cache_timestamp, data_by, stamp_by >>
    /\ UNCHANGED now
    /\ ConcFrame

\* line 75: len(cached_data) raises TypeError when cached_data is None by now
L75(t) ==
    /\ pc[t] = "l75"
    /\ IF cached_data = None
       THEN /\ loc' = [loc EXCEPT ![t] = Caught(@)]
            /\ pc' = [pc EXCEPT ![t] = "done"]
       ELSE /\ pc' = [pc EXCEPT ![t] = "l76"]
            /\ UNCHANGED loc
    /\ UNCHANGED << cached_data, cache_timestamp, data_by, stamp_by >>
    /\ UNCHANGED now
    /\ ConcFrame

\* line 76: return cached_data, the global as it is now
L76(t) ==
    /\ pc[t] = "l76"
    /\ loc' = [loc EXCEPT ![t] = Respond(@, cached_data, "cache")]
    /\ pc' = [pc EXCEPT ![t] = "done"]
    /\ UNCHANGED << cached_data, cache_timestamp, data_by, stamp_by >>
    /\ UNCHANGED now
    /\ ConcFrame

\* line 83: cached_data = licenses
L83(t) ==
    /\ pc[t] = "l83"
    /\ cached_data' = Some(loc[t].licenses)
    /\ data_by' = t
    /\ pc' = [pc EXCEPT ![t] = "l84"]
    /\ UNCHANGED << cache_timestamp, stamp_by, loc >>
    /\ UNCHANGED now
    /\ ConcFrame

\* lines 84-85: cache_timestamp = datetime.now(); return licenses
L84(t) ==
    /\ pc[t] = "l84"
    /\ now' = ClockRead
    /\ cache_timestamp' = Some(now')
    /\ stamp_by' = t
    /\ loc' = [loc EXCEPT ![t] = Respond([@ EXCEPT !.stamp = Some(now')],
                                         Some(loc[t].licenses), "source")]
    /\ pc' = [pc EXCEPT ![t] = "done"]
    /\ UNCHANGED << cached_data, data_by >>
    /\ ConcFrame

\* lines 90-92 and 95-96: open, cached_data = json.load(f), or return []
L91(t) ==
    /\ pc[t] = "l91"
    /\ \E fb \in FallbackOutcomes :
         IF fb.kind = "ok"
         THEN /\ cached_data' = Some(fb.rows)
              /\ data_by' = t
              /\ loc' = [loc EXCEPT ![t].licenses = fb.rows,
                                    ![t].fetch_attempted = TRUE]
              /\ pc' = [pc EXCEPT ![t] = "l93"]
         ELSE /\ loc' = [loc EXCEPT ![t] =
                    IF TotalFailure(cached_data, cache_timestamp).raised
                    THEN Caught([@ EXCEPT !.fetch_attempted = TRUE])
                    ELSE Respond([@ EXCEPT !.fetch_attempted = TRUE],
                                 Some(TotalFailure(cached_data, cache_timestamp).result),
                                 "empty")]
              /\ pc' = [pc EXCEPT ![t] = "done"]
              /\ UNCHANGED << cached_data, data_by >>
    /\ UNCHANGED << cache_timestamp, stamp_by >>
    /\ UNCHANGED now
    /\ ConcFrame

\* line 93: cache_timestamp = datetime.now()
L93(t) ==
    /\ pc[t] = "l93"
    /\ now' = ClockRead
    /\ cache_timestamp' = Some(now')
    /\ stamp_by' = t
    /\ loc' = [loc EXCEPT ![t].stamp = Some(now')]
    /\ pc' = [pc EXCEPT ![t] = "l94"]
    /\ UNCHANGED << cached_data, data_by >>
    /\ ConcFrame

\* line 94: return cached_data, the global as it is now
L94(t) ==
    /\ pc[t] = "l94"
    /\ loc' = [loc EXCEPT ![t] = Respond(@, cached_data, "fallback")]
    /\ pc' = [pc EXCEPT ![t] = "done"]
    /\ UNCHANGED << cached_data, cache_timestamp, data_by, stamp_by >>
    /\ UNCHANGED now
    /\ ConcFrame

Step(t) ==
    \/ L167(t) \/ L168(t) \/ L72(t) \/ L73(t) \/ L75(t) \/ L76(t)
    \/ L83(t) \/ L84(t) \/ L91(t) \/ L93(t) \/ L94(t)

NextConc == \E t \in Requests : Step(t)

SpecConc == InitConc /\ [][NextConc]_vars


-----------------------------------------------------------------------------
(* The handlers that read the record set: get_stats and get_license. The   *)
(* server runs without a connector and sample_data.json holds `data`, any  *)
(* record sequence; the first request loads it, later ones find it cached. *)

S_Unknown == << "U","n","k","n","o","w","n" >>

\* mutant: stats["by_state"][state] = 1
count_state_Reset(by_state, state) ==
    [k \in DOMAIN by_state \cup { state } |->
        IF k = state THEN 1 ELSE by_state[k]]

\* line 205: stats["by_state"][state] = stats["by_state"].get(state, 0) + 1
count_state(by_state, state) ==
    [k \in DOMAIN by_state \cup { state } |->
        IF k = state THEN Get(by_state, state, 0) + 1 ELSE by_state[k]]

\* mutant: `elif days_until < 30`
count_expiration_Below30(stats, license_data, td) ==
    LET exp_date_str == Get(license_data, "expiration", << >>)
    IN  IF exp_date_str = << >> THEN stats
        ELSE LET exp_date == strptime(exp_date_str)
             IN  IF exp_date = None THEN stats
                 ELSE LET days_until == DaysBetween(exp_date.v, td)
                      IN  IF days_until < 0
                          THEN [stats EXCEPT !.expired = @ + 1]
                          ELSE IF days_until < 30
                          THEN [stats EXCEPT !.expiring_soon = @ + 1]
                          ELSE stats

\* lines 211-223: the expiration of one record; `except: pass` leaves the
\* counts as they are when strptime raises
count_expiration(stats, license_data, td) ==
    LET exp_date_str == Get(license_data, "expiration", << >>)
    IN  IF exp_date_str = << >> THEN stats
        ELSE LET exp_date == strptime(exp_date_str)
             IN  IF exp_date = None THEN stats
                 ELSE LET days_until == DaysBetween(exp_date.v, td)
                      IN  IF days_until < 0
                          THEN [stats EXCEPT !.expired = @ + 1]
                          ELSE IF days_until <= 30
                          THEN [stats EXCEPT !.expiring_soon = @ + 1]
                          ELSE stats

\* lines 202-223: the body of `for license_data in data`
stats_step(stats, license_data, td) ==
    LET state == Get(license_data, "state", S_Unknown)
        s1 == [stats EXCEPT !.by_state = count_state(@, state)]
        s2 == IF Get(license_data, "organDonor", FALSE)
              THEN [s1 EXCEPT !.organ_donors = @ + 1] ELSE s1
    IN  count_expiration(s2, license_data, td)

RECURSIVE stats_loop(_, _, _)
stats_loop(stats, d, td) ==
    IF d = << >> THEN stats
    ELSE stats_loop(stats_step(stats, Head(d), td), Tail(d), td)

\* lines 192-223: the statistics of the record sequence d
compute_stats(d, td) ==
    stats_loop([total_licenses |-> Len(d), by_state |-> << >>,
                expiring_soon |-> 0, expired |-> 0, organ_donors |-> 0],
               d, td)

\* what open('sample_data.json') + json.load does here: fail, or give data
FileOutcomes == { [kind |-> "error"], [kind |-> "ok", rows |-> data] }

\* the license ids requested: of a full record, of a record with every
\* field defaulted, and of no record
LicenseIds == { 1, 4, 7 }

InitRead ==
    /\ IdleCache /\ IdleClock /\ IdleConc /\ IdleSheet /\ IdleGen
    /\ last = NoCall
    /\ resp = None
    /\ data \in RecordSeqs
    /\ today \in Todays
    /\ filters = << >>
    /\ filtered_data = << >>
    /\ filtered_again = << >>
    /\ fpc = "file"

\* GET /api/stats
get_stats ==
    \E fb \in FileOutcomes :
      LET r == get_license_data(FALSE, cached_data, cache_timestamp,
                                sheets_connector, GOOGLE_SHEET_ID, now,
                                [kind |-> "raise"], fb)
      IN  /\ cached_data' = r.cached_data
          /\ cache_timestamp' = r.cache_timestamp
          /\ last' = CallRecord(FALSE, now, r)
          /\ resp' = IF r.raised THEN Error500("stats")
                     ELSE [handler |-> "stats", status |-> 200, success |-> TRUE,
                           stats |-> compute_stats(r.result, today),
                           timestamp |-> now]
          /\ UNCHANGED << sheets_connector, GOOGLE_SHEET_ID, now, ticks,
                          concVars, filterVars, sheetVars, genVars >>

\* mutant: the last record of data, whatever its id
find_license_LastItem(d, license_id) ==
    IF d = << >> THEN None ELSE Some(d[Len(d)])

\* line 143: next((item for item in data if item.get('id') == license_id), None)
find_license(d, license_id) ==
    LET hits == SelectSeq(d, LAMBDA item : Get(item, "id", None) = license_id)
    IN  IF hits = << >> THEN None ELSE Some(Head(hits))

\* GET /api/licenses/<int:license_id>
get_license ==
    \E fb \in FileOutcomes, license_id \in LicenseIds :
      LET r == get_license_data(FALSE, cached_data, cache_timestamp,
                                sheets_connector, GOOGLE_SHEET_ID, now,
                                [kind |-> "raise"], fb)
          license_data == find_license(r.result, license_id)
      IN  /\ cached_data' = r.cached_data
          /\ cache_timestamp' = r.cache_timestamp
          /\ last' = [license_id |-> license_id] @@ CallRecord(FALSE, now, r)
          /\ resp' = IF r.raised THEN Error500("license")
                     ELSE IF license_data # None /\ DOMAIN license_data.v # {}
                     THEN [handler |-> "license", status |-> 200,
                           success |-> TRUE, license |-> license_data.v]
                     ELSE [handler |-> "license", status |-> 404,
                           success |-> FALSE,
                           error |-> << "License with ID ", license_id,
                                        " not found" >>]
          /\ UNCHANGED << sheets_connector, GOOGLE_SHEET_ID, now, ticks,
                          concVars, filterVars, sheetVars, genVars >>

NextRead == get_stats \/ get_license

SpecRead == InitRead /\ [][NextRead]_vars

-----------------------------------------------------------------------------
(* The sheet adapter: GoogleSheetsConnector.get_license_data *)

\* row[k] if len(row) > k else '', k counted from 0 as in Python
Cell(row, k) == IF Len(row) > k THEN row[k + 1] ELSE << >>

\* str.isdigit() on the digits modelled: non-empty and all digits
isdigit(s) == s # << >> /\ AllDigits(s)

\* lines 116-135: the record built from the row at position i of data_rows
row_to_license(i, row) ==
    [id |-> i + 1,
     firstName |-> Cell(row, 1),
     lastName |-> Cell(row, 2),
     middleInitial |-> Cell(row, 3),
     dateOfBirth |-> Cell(row, 4),
     state |-> Cell(row, 5),
     licenseNumber |-> Cell(row, 6),
     city |-> Cell(row, 7),
     street |-> Cell(row, 8),
     zipCode |-> Cell(row, 9),
     height |-> Cell(row, 10),
     weight |-> IF Len(row) > 11 /\ isdigit(row[12]) THEN NumVal(row[12]) ELSE 0,
     eyeColor |-> Cell(row, 12),
     hairColor |-> Cell(row, 13),
     expiration |-> Cell(row, 14),
     licenseClass |-> << >>,
     restrictions |-> << >>,
     organDonor |-> FALSE]

\* lines 109-141: for i, row in enumerate(data_rows), with `if not row:
\* continue` for a row without columns
RECURSIVE rows_loop(_, _, _)
rows_loop(data_rows, i, acc) ==
    IF i >= Len(data_rows) THEN acc
    ELSE IF data_rows[i + 1] = << >>
    THEN rows_loop(data_rows, i + 1, acc)
    ELSE rows_loop(data_rows, i + 1,
                   Append(acc, row_to_license(i, data_rows[i + 1])))

\* lines 90-144: no rows at all give [], otherwise the first row is the
\* header and the others are converted
connector_get_license_data(raw) ==
    IF raw = << >> THEN << >> ELSE rows_loop(Tail(raw), 0, << >>)

MaxRows == 3         \* most data rows under the header

HeaderRow == << << "#" >>, << "F","i","r","s","t" >>, << "L","a","s","t" >> >>

\* rows as the Sheets API returns them: without columns, with the first
\* column only, up to the state column, and up to the expiration column
Row_empty == << >>
Row_short == << << "7" >> >>
Row_state == << << "1" >>, Str_Ann, Str_Cay, << "B" >>,
                << "1","9","9","0","-","0","1","-","0","1" >>, << "C","A" >> >>
Row_full  == << << "2" >>, Str_Dan, Str_Nye, << "Q" >>,
                << "1","9","9","1","-","0","2","-","0","3" >>, << "N","Y" >>,
                << "N","2" >>, << "R","y","e" >>, << "1"," ","E","l","m" >>,
                << "1","0","5","8","0" >>, << "5","'","9" >>, << "1","6","0" >>,
                << "B","R","O" >>, << "B","L","K" >>,
                << "2","0","2","4","-","0","3","-","0","2" >> >>
RowPool == { Row_empty, Row_short, Row_state, Row_full }

RawBatches ==
    { << >> } \cup
    UNION { { << HeaderRow >> \o rows : rows \in [1..n -> RowPool] } :
              n \in 0..MaxRows }

InitSheet ==
    /\ IdleCache /\ IdleClock /\ IdleSeq /\ IdleConc /\ IdleFilter /\ IdleGen
    /\ raw_data \in RawBatches
    /\ licenses = None

\* licenses = sheets_connector.get_license_data(sheet id)
ReadSheet ==
    /\ licenses = None
    /\ licenses' = Some(connector_get_license_data(raw_data))
    /\ UNCHANGED raw_data
    /\ UNCHANGED << cacheVars, now, ticks, seqVars, concVars, filterVars, genVars >>

NextSheet == ReadSheet

SpecSheet == InitSheet /\ [][NextSheet]_vars

-----------------------------------------------------------------------------
(* The generator: LicenseGenerator.generate_entry *)

\* the years the dates of the generator can fall in
GenYears == 1990..2040

\* date(y, 1, 1).toordinal()
YearStart(y) == Ordinal([year |-> y, month |-> 1, day |-> 1])

\* date.fromordinal(n), for the years above
fromordinal(n) ==
    LET y == CHOOSE yy \in GenYears : YearStart(yy) <= n /\ n < YearStart(yy + 1)
        m == CHOOSE mm \in 1..12 :
                 /\ DaysBeforeMonth(y, mm) < n - YearStart(y) + 1
                 /\ n - YearStart(y) + 1 <= DaysBeforeMonth(y, mm) + DaysInMonth(y, mm)
    IN  [year |-> y, month |-> m,
         day |-> n - YearStart(y) + 1 - DaysBeforeMonth(y, m)]

\* lines 104-106: delta = (end - start).days
date_delta(start_year, end_year) ==
    Ordinal([year |-> end_year, month |-> 12, day |-> 31]) - YearStart(start_year)

\* lines 102-108: generate_date, random_days being the value of
\* random.randint(0, delta)
generate_date(start_year, random_days) ==
    fromordinal(YearStart(start_year) + random_days)

\* date.replace(year=y): ValueError (None here) when the day does not exist
\* in year y
replace_year(d, y) ==
    IF d.day <= DaysInMonth(y, d.month)
    THEN Some([d EXCEPT !.year = y]) ELSE None

\* the decimal digits of n, padded with zeros to width w
RECURSIVE zero_padded(_, _)
zero_padded(n, w) ==
    IF w = 0 THEN << >>
    ELSE Append(zero_padded(n \div 10, w - 1), Digits[(n % 10) + 1])

\* date.strftime("%Y-%m-%d")
strftime(d) ==
    zero_padded(d.year, 4) \o << "-" >> \o zero_padded(d.month, 2)
        \o << "-" >> \o zero_padded(d.day, 2)

\* lines 110-166: generate_entry. c holds the values of the random calls
\* and of date.today(). The result is the row, or raised when a
\* date.replace raises ValueError, which nothing in generate_entry catches.
generate_entry(entry_id, c) ==
    LET dob == generate_date(1990, c.dob_days)
        issue_date == generate_date(2018, c.issue_days)
        first == replace_year(issue_date, issue_date.year + c.years)
    IN  IF first = None THEN [raised |-> TRUE]
        ELSE LET second ==
                     IF Ordinal(first.v) < Ordinal(c.today)
                     THEN replace_year(first.v, first.v.year + 4)
                     ELSE first
             IN  IF second = None THEN [raised |-> TRUE]
                 ELSE [raised |-> FALSE,
                       row |-> << entry_id, c.first_name, c.last_name, c.middle,
                                  strftime(dob), c.state, c.license_number,
                                  c.city, c.street, c.zip_code, c.height,
                                  c.weight, c.eye_color, c.hair_color,
                                  strftime(second.v),
                                  << "C","L","A","S","S"," " >> \o c.license_class,
                                  c.restriction, c.organ_donor >>]

\* the values of date.today() tried
GenTodays == { [year |-> 2021, month |-> 6, day |-> 15],
               [year |-> 2024, month |-> 2, day |-> 29],
               [year |-> 2026, month |-> 11, day |-> 5] }

\* the random choices: every issue date of 2018..2023 and every validity
\* period; one value for each choice that no date depends on
GenChoices ==
    { [issue_days |-> i, years |-> y, today |-> td, dob_days |-> 59,
       first_name |-> << "J","a","m","e","s" >>,
       last_name |-> << "S","m","i","t","h" >>,
       middle |-> << "Q" >>,
       state |-> << "C","A" >>,
       license_number |-> << "F","1","2","3","4","5","6","7" >>,
       city |-> << "F","r","e","s","n","o" >>,
       street |-> << "1","0","0"," ","E","l","m"," ","S","t" >>,
       zip_code |-> << "1","0","0","0","0" >>,
       height |-> << "5","'","1","1","\"" >>,
       weight |-> 120,
       eye_color |-> << "B","R","O" >>,
       hair_color |-> << "B","L","K" >>,
       license_class |-> << "C" >>,
       restriction |-> << "N","O","N","E" >>,
       organ_donor |-> << "Y","E","S" >>] :
      i \in 0..date_delta(2018, 2023), y \in { 4, 5, 6 }, td \in GenTodays }

InitGen ==
    /\ IdleCache /\ IdleClock /\ IdleSeq /\ IdleConc /\ IdleFilter /\ IdleSheet
    /\ gen_input \in GenChoices
    /\ gen_entry = None

\* entry = self.generate_entry(1)
GenerateEntry ==
    /\ gen_entry = None
    /\ gen_entry' = Some(generate_entry(1, gen_input))
    /\ UNCHANGED gen_input
    /\ UNCHANGED << cacheVars, now, ticks, seqVars, concVars, filterVars, sheetVars >>

NextGen == GenerateEntry

SpecGen == InitGen /\ [][NextGen]_vars

-----------------------------------------------------------------------------
(* Properties of the cache, sequential handling (Spec) *)

\* C1: of two consecutive get_license_data(False) calls less than
\* CACHE_TIMEOUT apart with nothing but time passing in between, the first
\* having stored the set it returned (the empty set loaded from the fallback
\* file included), the second returns the same set and performs no fetch:
\* no adapter call and no fallback-file load.
C1_SecondCallFromCache ==
    [][ ( /\ get_licenses
          /\ ~last.force_refresh
          /\ last.path \in { "source", "fallback" }
          /\ now - last.time < CACHE_TIMEOUT )
        => ( /\ last'.path = "cache"
             /\ last'.result = last.result
             /\ ~last'.src_called /\ ~last'.fb_loaded ) ]_vars

\* C4: a call that leaves the cache-hit path, fails at the source and loads
\* the fallback file stores the file's contents with the time of the call
\* and returns them, and the next get_license_data(False) within the
\* timeout is served from that entry.
C4_FallbackStoredAndServed ==
    [][ /\ ( /\ get_licenses \/ refresh_data
             /\ last'.path = "fallback" )
           => ( /\ cached_data' = Some(last'.result)
                /\ cache_timestamp' = Some(now) )
        /\ ( /\ get_licenses
             /\ last.path = "fallback"
             /\ now - last.time < CACHE_TIMEOUT )
           => ( /\ last'.path = "cache"
                /\ last'.result = last.result ) ]_vars

\* C5: on total failure (the cached entry not used, the source unavailable
\* or failing, the fallback file missing or unreadable) get_license_data
\* returns the empty sequence and raises nothing, so the handler answers
\* normally, whatever force_refresh and the cache held before.
C5_TotalFailureReturnsEmpty ==
    last.path = "empty" =>
        /\ last.result = << >>
        /\ ~last.raised
        /\ last.fb_loaded
        /\ resp.status = 200
        /\ Get(resp, "total", 0) = 0 /\ Get(resp, "count", 0) = 0

C5_Witness ==
    /\ last.path = "empty"
    /\ ~last.force_refresh
    /\ last.src_called
    /\ cached_data = Some(<< p3 >>)
    /\ resp.handler = "licenses" /\ resp.total = 0

\* a step of get_licenses: of the three actions, the one that leaves the
\* clock alone and calls get_license_data without force_refresh
LicensesStep == now' = now /\ ~last'.force_refresh

\* C18: a call get_license_data(False) served from the cache returns the
\* stored set and leaves cached_data and cache_timestamp as they were, the
\* entry being less than CACHE_TIMEOUT seconds old; a call that stores an
\* entry stamps it with the time of the call; and a call made CACHE_TIMEOUT
\* seconds or more after the entry's timestamp takes the fetch path, however
\* many cache hits came in between.
C18_HitKeepsTimestamp ==
    [][ LicensesStep =>
          /\ last'.path = "cache" =>
                /\ cached_data' = cached_data
                /\ cache_timestamp' = cache_timestamp
                /\ last'.result = cached_data.v
                /\ now - cache_timestamp.v < CACHE_TIMEOUT
          /\ last'.path \in { "source", "fallback" } =>
                cache_timestamp' = Some(now)
          /\ ( cache_timestamp # None
               /\ now >= cache_timestamp.v + CACHE_TIMEOUT ) =>
                /\ last'.path # "cache"
                /\ last'.src_called \/ last'.fb_loaded ]_vars

\* a cache hit later than the store (the longest time the clock steps
\* allow), after which the entry still carries the time of the store
C18_Witness ==
    /\ ~last.force_refresh
    /\ last.path = "cache"
    /\ cache_timestamp # None
    /\ last.time = cache_timestamp.v + CACHE_TIMEOUT - 1
    /\ cached_data = Some(last.result)

-----------------------------------------------------------------------------
(* Properties of the cache, concurrent handling (SpecConc) *)

AllDone == \A t \in Requests : pc[t] = "done"

\* C2: a get_license_data(force_refresh=True) call never goes through the
\* cached-entry path (lines 73-76), also when the cache holds a fresh entry
\* at the call, and it always attempts a fetch: the adapter call, or the
\* fallback-file load when the connector or the sheet id is not configured.
C2_ForceAlwaysFetches ==
    \A t \in Requests :
        loc[t].force_refresh =>
            /\ pc[t] \notin { "l73", "l75", "l76" }
            /\ loc[t].path \notin { "cache", "raised" }
            /\ pc[t] = "done" =>
                  /\ loc[t].path \in { "source", "fallback", "empty" }
                  /\ loc[t].path # "source" => loc[t].fetch_attempted
                  /\ ConnectorUsable(sheets_connector, GOOGLE_SHEET_ID)
                        => loc[t].fetch_attempted

\* a forced call that found a fresh entry, stored by another request after
\* the refresh handler had cleared the cache, and fetched all the same
C2_Witness ==
    \E t \in Requests :
        /\ loc[t].force_refresh
        /\ pc[t] = "done"
        /\ loc[t].pre_call # None
        /\ loc[t].path = "source"

\* C3 as claimed: after get_license_data(force_refresh=True), whatever the
\* outcome of the fetch, the cache no longer holds the entry it held when
\* the call was made, and no later get_license_data(False) can be served it.
C3_ForceCallInvalidates ==
    \A t \in Requests :
        ( /\ loc[t].force_refresh
          /\ pc[t] = "done"
          /\ loc[t].pre_call # None )
        => Servable # loc[t].pre_call

\* C3 as amended: refresh_data clears the cache (lines 167-168) before it
\* calls get_license_data(force_refresh=True), which itself invalidates
\* nothing. Whatever the outcome of the fetch, the entry cached when the
\* refresh handler started is not held in the cache at any time after line
\* 167, so no later get_license_data(False) can be served it.
C3_RefreshInvalidates ==
    \A t \in Requests :
        ( /\ kind[t] = "refresh"
          /\ pc[t] # "l167"
          /\ loc[t].pre # None )
        => Held # loc[t].pre

C3_Witness ==
    \E t \in Requests :
        /\ kind[t] = "refresh"
        /\ pc[t] = "done"
        /\ loc[t].pre = Some(0)
        /\ loc[t].path = "empty"
        /\ cached_data = None /\ cache_timestamp = None

\* C6: when concurrent requests that each found the cache expired or absent
\* and each ran get_license_data have all finished, the cache holds the
\* complete result of one of their fetches together with the timestamp that
\* the same request wrote with it.
C6_LastWriterConsistent ==
    ( /\ AllDone
      /\ \A t \in Requests :
            /\ kind[t] = "licenses"
            /\ loc[t].path \in { "source", "fallback", "empty" } )
    => /\ data_by = stamp_by
       /\ data_by # 0 =>
            /\ cached_data = Some(loc[data_by].licenses)
            /\ cache_timestamp = loc[data_by].stamp

-----------------------------------------------------------------------------
(* Properties of apply_filters (SpecFilter) *)

RecognisedKeys == { "search", "state", "status" }

\* a == b ignoring case, compared character by character
EqIgnoreCase(a, b) ==
    /\ Len(a) = Len(b)
    /\ \A i \in 1..Len(a) : LowerChar(a[i]) = LowerChar(b[i])

\* request.args reduced to the one key k
OnlyKey(f, k) == [x \in ({k} \cap DOMAIN f) |-> f[x]]

\* C7: apply_filters(R, p) is R itself when p has no keys, and when every
\* recognised key (search, state, status) that p holds has an empty value,
\* in particular when all three are present and empty.
C7_NoFilterIsIdentity ==
    ( /\ fpc = "done"
      /\ \A k \in RecognisedKeys \cap DOMAIN filters : filters[k] = << >> )
    => filtered_data = data

C7_Witness ==
    /\ fpc = "done"
    /\ RecognisedKeys \subseteq DOMAIN filters
    /\ \A k \in RecognisedKeys : filters[k] = << >>
    /\ Len(data) >= 2
    /\ data[1] = p1 /\ data[2] = p3
    /\ filtered_data = data

\* C8: apply_filters(R, {state: s}) with s non-empty is the sequence of
\* exactly the records of R whose state equals s ignoring case (a record
\* without a state has the empty state): none added, none left out.
C8_StateFilterExact ==
    ( /\ fpc = "done"
      /\ DOMAIN filters = { "state" }
      /\ filters["state"] # << >> )
    => /\ filtered_data =
            SelectSeq(data, LAMBDA r :
                EqIgnoreCase(Get(r, "state", << >>), filters["state"]))
       /\ \A r \in Range(data) :
            r \in Range(filtered_data)
                <=> EqIgnoreCase(Get(r, "state", << >>), filters["state"])

C8_Witness ==
    /\ fpc = "done"
    /\ DOMAIN filters = { "state" }
    /\ filters["state"] = << "c","a" >>
    /\ data = << p1, p3 >>
    /\ filtered_data = << p1 >>

\* C9: with the same today, filtering the result of apply_filters(R, p) by p
\* again gives that result: apply_filters(apply_filters(R, p), p) =
\* apply_filters(R, p), for every p, unrecognised status values included.
C9_Idempotent ==
    fpc = "again" => filtered_again = filtered_data

C9_Witness ==
    /\ fpc = "again"
    /\ \A k \in RecognisedKeys : k \in DOMAIN filters /\ filters[k] # << >>
    /\ filtered_data # << >>
    /\ Len(filtered_data) < Len(data)
    /\ filtered_again = filtered_data

\* whether one record satisfies every parameter that is supplied non-empty
MatchesAll(item, f, td) ==
    /\ Get(f, "search", << >>) # << >>
          => SearchMatches(item, lower(f["search"]))
    /\ Get(f, "state", << >>) # << >>
          => EqIgnoreCase(Get(item, "state", << >>), f["state"])
    /\ Get(f, "status", << >>) # << >>
          => check_license_status(item, f["status"], td)

\* C10: apply_filters(R, p) is the subsequence of R, in R's order, of exactly
\* the records that satisfy every supplied parameter; it is the intersection
\* of the results of each parameter applied alone, and the three filters
\* give the same result in any order of application.
C10_ConjunctionInOrder ==
    fpc = "done" =>
      /\ filtered_data = SelectSeq(data, LAMBDA r : MatchesAll(r, filters, today))
      /\ filtered_data =
           SelectSeq(data, LAMBDA r :
               \A k \in RecognisedKeys :
                   r \in Range(apply_filters(data, OnlyKey(filters, k), today)))
      /\ filtered_data =
           SearchFilter(StateFilter(StatusFilter(data, filters, today), filters), filters)
      /\ filtered_data =
           StateFilter(SearchFilter(StatusFilter(data, filters, today), filters), filters)

C10_Witness ==
    /\ fpc = "done"
    /\ \A k \in RecognisedKeys : k \in DOMAIN filters /\ filters[k] # << >>
    /\ Len(data) >= 2
    /\ Len(filtered_data) = 1
    /\ \E i \in 1..Len(data) :
          /\ data[i] \notin Range(filtered_data)
          /\ StateMatches(data[i], filters["state"])

-----------------------------------------------------------------------------
(* Properties of check_license_status (SpecFilter) *)

\* the expiration date of a record is present and strptime accepts it
Parseable(r) ==
    /\ Get(r, "expiration", << >>) # << >>
    /\ strptime(Get(r, "expiration", << >>)) # None

\* expiration - today in whole days, for a record with a parseable date
DaysUntil(r, td) == DaysBetween(strptime(r["expiration"]).v, td)

\* the status that the number of days until expiration stands for
StatusOfDays(du) == IF du < 0 THEN S_expired
                    ELSE IF du <= 30 THEN S_expiring ELSE S_valid

\* C11: for a record with a parseable expiration date and any today, with
\* days_until = expiration - today in days, check_license_status matches
\* exactly one of valid / expiring / expired: expired iff days_until < 0,
\* expiring iff 0 <= days_until <= 30, valid iff days_until > 30 (so today+30
\* and today are expiring, today+31 is valid, today-1 is expired), and a
\* filter on one of the three statuses keeps exactly the records of it.
C11_ClassifierBoundaries ==
    ( /\ fpc = "done"
      /\ DOMAIN filters = { "status" }
      /\ filters["status"] # << >> )
    => /\ \A r \in Range(data) :
            Parseable(r) =>
              LET du == DaysUntil(r, today)
                  expired == check_license_status(r, S_expired, today)
                  expiring == check_license_status(r, S_expiring, today)
                  valid == check_license_status(r, S_valid, today)
              IN  /\ expired <=> du < 0
                  /\ expiring <=> (0 <= du /\ du <= 30)
                  /\ valid <=> du > 30
                  /\ \/ expired /\ ~expiring /\ ~valid
                     \/ ~expired /\ expiring /\ ~valid
                     \/ ~expired /\ ~expiring /\ valid
       /\ filters["status"] \in { S_valid, S_expiring, S_expired }
            => filtered_data =
                 SelectSeq(data, LAMBDA r :
                     /\ Parseable(r)
                     /\ StatusOfDays(DaysUntil(r, today)) = filters["status"])

\* today + 30 days and today + 31 days under the expiring filter
C11_Witness ==
    /\ fpc = "done"
    /\ DOMAIN filters = { "status" }
    /\ filters["status"] = S_expiring
    /\ data = << p1, p2 >>
    /\ DaysUntil(p1, today) = 30
    /\ DaysUntil(p2, today) = 31
    /\ filtered_data = << p1 >>

\* C12: with a non-empty status parameter, recognised or not, the result of
\* apply_filters holds no record whose expiration date is missing, empty or
\* not parseable as YYYY-MM-DD.
C12_UnparseableExcluded ==
    ( /\ fpc = "done"
      /\ Get(filters, "status", << >>) # << >> )
    => \A r \in Range(filtered_data) : Parseable(r)

\* a date that is not in the calendar, under an unrecognised status value
C12_Witness ==
    /\ fpc = "done"
    /\ DOMAIN filters = { "status" }
    /\ filters["status"] = << "a","l","l" >>
    /\ data = << p6, p1 >>
    /\ ~Parseable(p6)
    /\ filtered_data = << p1 >>

-----------------------------------------------------------------------------
(* Properties of get_stats and get_license (SpecRead) *)

\* the sum of the values of a mapping
RECURSIVE SumValues(_)
SumValues(f) ==
    IF DOMAIN f = {} THEN 0
    ELSE LET k == CHOOSE x \in DOMAIN f : TRUE
         IN  f[k] + SumValues([x \in DOMAIN f \ { k } |-> f[x]])

StatsAnswered == resp # None /\ resp.handler = "stats" /\ resp.status = 200

\* C13: for the record sequence R that get_stats obtained, records with a
\* missing or an empty state included, the values of by_state sum to len(R)
\* and total_licenses is len(R).
C13_ByStateSumsToTotal ==
    StatsAnswered =>
      /\ SumValues(resp.stats.by_state) = Len(last.result)
      /\ resp.stats.total_licenses = Len(last.result)

\* a record without a state key and a record with an empty state
C13_Witness ==
    /\ StatsAnswered
    /\ last.result = << p5, p4 >>
    /\ DOMAIN resp.stats.by_state = { S_Unknown, << >> }
    /\ resp.stats.total_licenses = 2

\* C14: with the same today, expiring_soon and expired of get_stats are the
\* numbers of records that the status filter keeps for expiring and for
\* expired; a record with an empty or unparseable expiration date is counted
\* in neither.
C14_StatsAgreeWithFilter ==
    StatsAnswered =>
      /\ resp.stats.expiring_soon =
            Len(apply_filters(last.result, [status |-> S_expiring], today))
      /\ resp.stats.expired =
            Len(apply_filters(last.result, [status |-> S_expired], today))
      /\ resp.stats.expiring_soon + resp.stats.expired
            <= Len(SelectSeq(last.result, Parseable))

\* an unparseable date next to a date 30 days ahead
C14_Witness ==
    /\ StatsAnswered
    /\ last.result = << p6, p1 >>
    /\ DaysUntil(p1, today) = 30
    /\ resp.stats.expiring_soon = 1
    /\ resp.stats.expired = 0

LicenseAnswered ==
    resp # None /\ resp.handler = "license" /\ resp.status # 500

\* C16: for the record set R that get_license_data returned and the
\* requested id, GET /api/licenses/<id> answers 404 with success false and
\* the error "License with ID <id> not found" exactly when no record of R
\* has that id, and otherwise success with a record of R whose id is the
\* requested one.
C16_NotFoundExactly ==
    LicenseAnswered =>
      LET R == last.result
          id == last.license_id
      IN  IF \E i \in 1..Len(R) : R[i].id = id
          THEN /\ resp.status = 200
               /\ resp.success
               /\ resp.license \in Range(R)
               /\ resp.license.id = id
          ELSE /\ resp.status = 404
               /\ ~resp.success
               /\ resp.error = << "License with ID ", id, " not found" >>

\* an id that no record of a cached, non-empty record set carries
C16_Witness ==
    /\ LicenseAnswered
    /\ last.path = "cache"
    /\ last.result = << p1, p4 >>
    /\ last.license_id = 7
    /\ resp.status = 404

-----------------------------------------------------------------------------
(* Properties of the sheet adapter (SpecSheet) *)

\* C15: for every batch of raw rows (a header row, then empty, short and
\* full rows in any mix), the records the adapter returns carry ids that are
\* unique and are the dense sequence 1..N, N being the number of records.
C15_IdsDense ==
    licenses # None =>
      LET N == Len(licenses.v)
      IN  /\ \A j, k \in 1..N : licenses.v[j].id = licenses.v[k].id => j = k
          /\ { licenses.v[k].id : k \in 1..N } = 1..N
          /\ \A k \in 1..N : licenses.v[k].id = k

-----------------------------------------------------------------------------
(* The cache entry as a whole, concurrent handling (SpecConc) *)

\* no request is in the middle of its handler: each one has answered or has
\* not started
Quiescent ==
    \A t \in Requests :
        \/ pc[t] = "done"
        \/ pc[t] = (IF kind[t] = "refresh" THEN "l167" ELSE "l72")
           /\ loc[t] = NewLocals(kind[t])

\* C17: whenever no handler is in the middle of executing, after any
\* interleaving of concurrent /api/licenses, /api/stats and /api/refresh
\* requests with any fetch outcomes, cached_data and cache_timestamp are
\* both None or both present.
C17_NeverPartial ==
    Quiescent => (cached_data = None <=> cache_timestamp = None)

-----------------------------------------------------------------------------
(* Properties of the generator (SpecGen) *)

\* C19: for every issue date of 2018..2023, every validity period of 4, 5
\* or 6 years and every today, generate_entry ends without an error and
\* returns a row of 18 fields whose expiration date is not before today.
C19_ExpirationNotPast ==
    gen_entry # None =>
      /\ ~gen_entry.v.raised
      /\ Len(gen_entry.v.row) = 18
      /\ strptime(gen_entry.v.row[15]) # None
      /\ Ordinal(strptime(gen_entry.v.row[15]).v) >= Ordinal(gen_input.today)

====
